---- MODULE Spec2Model ----
(***************************************************************************)
(* Model of the fabric runtime (crate fabric_runtime, cranelift backend):  *)
(* the externs arena, the linear memory and its loaders, the module        *)
(* environment that translate_module fills, and the steps of load_module.  *)
(*                                                                         *)
(* Rust indices are 0-based; TLA+ sequences are 1-based: slot index i of   *)
(* the source is element i + 1 of the sequence that models the Vec.        *)
(***************************************************************************)
EXTENDS Integers, Sequences, FiniteSets, TLC

VARIABLES
    externs,               \* VMContext.externs: the slots of the arena
    issued,                \* ghost: the handles create returned
    last,                  \* ghost: the last arena call and its outcome
    peak,                  \* ghost: the most values the arena held at one time
    pc,                    \* load_module: the step it is at
    memories,              \* ModuleEnv.memories
    data_initializations,  \* ModuleEnv.data_initializations
    segments,              \* ghost: the data segments the module declared
    memory,                \* VMContext.memory
    loaded,                \* ghost: the last Memory::load and its outcome
    section,               \* ghost: the section translate_module has reached
    signatures,            \* ModuleEnv.module.signatures
    functions,             \* ModuleEnv.module.functions
    globals,               \* ModuleEnv.module.globals
    imported_functions,    \* ModuleEnv.imported_functions
    defined_functions,     \* ModuleEnv.defined_functions
    start_func,            \* ModuleEnv.start_func
    host,                  \* ghost: the calls made to the Environment
    callback,              \* ghost: the last import callback and its outcome
    symbols,               \* the SimpleJITBuilder::symbol calls, in order
    declared,              \* the cranelift Module's function declarations
    definitions,           \* the cranelift Module's function definitions
    list,                  \* load_module's local `list`
    table,                 \* VMContext.functions
    steps,                 \* ghost: the steps load_module has entered
    outcome,                \* ghost: how load_module ended
    started,               \* ghost: the guest calls made by load_module
    lookup,                \* ghost: the last VMContext::function call
    lowered,               \* ghost: the last FuncEnvironment callback and its outcome
    mutex,                 \* Module: the Mutex around the VMContext, its holder
    threads                \* FabricListener::fire_game_event: where each thread is

externsVars == <<externs, issued, last, peak>>
loadVars == <<pc, memories, data_initializations, segments, memory, loaded>>
envVars == <<section, signatures, functions, globals, imported_functions,
             defined_functions, start_func, host, callback>>
jitVars == <<symbols, declared, definitions, list, table>>
runVars == <<steps, outcome, started, lookup>>
useVars == <<lowered, mutex, threads>>
linkVars == <<envVars, jitVars, runVars, useVars>>
vars == <<externs, issued, last, peak, pc, memories, data_initializations, segments, memory, loaded,
          section, signatures, functions, globals, imported_functions, defined_functions,
          start_func, host, callback, symbols, declared, definitions, list, table,
          steps, outcome, started, lookup, lowered, mutex, threads>>

(***************************************************************************)
(* Bounds of the exploration.                                              *)
(***************************************************************************)
\* largest number of slots the arena grows to
MaxSlots == 2
\* largest generation a slot is driven to under Spec
MaxGen == 2
\* slots / remembered handles under SpecWrap (full 16-bit generation)
WrapSlots == 1
WrapHeld == 1
\* memories and data segments a module declares
MaxMemories == 1
MaxSegments == 2
\* largest number of signatures in the type section of a module
MaxSignatures == 1
\* largest number of imports (functions and globals) of a module
MaxImports == 2
\* largest number of functions a module defines
MaxDefined == 2

(***************************************************************************)
(* Program constants.                                                      *)
(***************************************************************************)
\* ExternSlot.gen is a u16
GenBits == 16
GenModulus == 2 ^ GenBits

\* The dynamic types (TypeId of the Box<dyn Any>) of the values and the
\* values a caller stores
Types == {"A", "B"}
Payloads == {[ty |-> "A", v |-> 1], [ty |-> "A", v |-> 2], [ty |-> "B", v |-> 2]}
WrapTypes == {"A"}
WrapPayloads == {[ty |-> "A", v |-> 1]}

\* Option::None of ExternSlot.value
None == [ty |-> "none", v |-> 0]
Some(ty, v) == [ty |-> ty, v |-> v]

(***************************************************************************)
(* ExternRef: a 64-bit integer that packs (index: u32, gen: u16).          *)
(***************************************************************************)
from_index_gen(index, gen) == index * GenModulus + gen
index_gen(h) == [index |-> h \div GenModulus, gen |-> h % GenModulus]

NoHandle == -1

(***************************************************************************)
(* Externs::create_extern                                                  *)
(***************************************************************************)
\* a scan that finds no empty slot
EmptySlotsOverlooked(arena) == {}

EmptySlots(arena) == {i \in 1..Len(arena) : arena[i].value = None}

\* ghost: the number of values stored, and the most there have been
Occupied(arena) == Cardinality({i \in 1..Len(arena) : arena[i].value # None})
Peak(arena) == IF Occupied(arena) > peak THEN Occupied(arena) ELSE peak

\* the slot the `for` loop stops at: the first one whose value is None
FirstEmpty(arena) == CHOOSE i \in EmptySlots(arena) : \A j \in EmptySlots(arena) : i <= j

\* `slot.gen += 1` on a u16: the outcomes a build can produce.  With overflow
\* checks (debug profile) the addition panics at 65535; without (release
\* profile) it wraps to 0.
\* a create that reuses a slot without advancing its generation
GenIncrementForgotten(gen) == {[fault |-> FALSE, gen |-> gen]}

GenIncrement(gen) ==
    IF gen + 1 < GenModulus
    THEN {[fault |-> FALSE, gen |-> gen + 1]}
    ELSE {[fault |-> TRUE, gen |-> gen], [fault |-> FALSE, gen |-> (gen + 1) % GenModulus]}

HandlesOf(set) == {r.h : r \in set}

Result(op, arg, ty, v, result, cause, ret, handle, stale, dup) ==
    [op |-> op, arg |-> arg, ty |-> ty, v |-> v, result |-> result, cause |-> cause,
     ret |-> ret, handle |-> handle, stale |-> stale, dup |-> dup]

\* ghost: the handle returned by create is remembered with the value it was
\* created for, while there is room; once a take(h) has removed the value
\* the record keeps only the handle, marked taken
Remember(h, ty, v, maxHeld) ==
    IF h \notin HandlesOf(issued) /\ Cardinality(issued) < maxHeld
    THEN issued \cup {[h |-> h, ty |-> ty, v |-> v, taken |-> FALSE]}
    ELSE issued

CreateReuse(ty, v, genBound, maxHeld) ==
    /\ EmptySlots(externs) # {}
    /\ LET i == FirstEmpty(externs) IN
         /\ externs[i].gen < genBound
         /\ \E inc \in GenIncrement(externs[i].gen) :
              IF inc.fault
              THEN /\ last' = Result("create", NoHandle, ty, v, "fault", "overflow",
                                     None, NoHandle, FALSE, FALSE)
                   /\ UNCHANGED <<externs, issued, peak>>
              ELSE LET h == from_index_gen(i - 1, inc.gen) IN
                   /\ externs' = [externs EXCEPT ![i] = [gen |-> inc.gen, value |-> Some(ty, v)]]
                   /\ peak' = Peak(externs')
                   /\ issued' = Remember(h, ty, v, maxHeld)
                   /\ last' = Result("create", NoHandle, ty, v, "ok", "none",
                                     None, h, FALSE, h \in HandlesOf(issued))

CreateAppend(ty, v, maxSlots, maxHeld) ==
    /\ EmptySlots(externs) = {}
    /\ Len(externs) < maxSlots
    /\ LET index == Len(externs)
           h == from_index_gen(index, 0) IN
         /\ externs' = Append(externs, [gen |-> 0, value |-> Some(ty, v)])
         /\ peak' = Peak(externs')
         /\ issued' = Remember(h, ty, v, maxHeld)
         /\ last' = Result("create", NoHandle, ty, v, "ok", "none",
                           None, h, FALSE, h \in HandlesOf(issued))

create_extern(ty, v, maxSlots, genBound, maxHeld) ==
    \/ CreateReuse(ty, v, genBound, maxHeld)
    \/ CreateAppend(ty, v, maxSlots, maxHeld)

(***************************************************************************)
(* Externs::get_extern / get_extern_mut / take_extern                      *)
(***************************************************************************)
\* accessors without the assert_eq on the generation
LookupNoGeneration(arena, h, ty) ==
    LET ig == index_gen(h) IN
    IF ig.index >= Len(arena) THEN "index"
    ELSE LET slot == arena[ig.index + 1] IN
         IF slot.value = None THEN "empty"
         ELSE IF slot.value.ty # ty THEN "type"
         ELSE "none"

\* the checks the three accessors make, in the order of the source:
\* slice index, assert_eq on the generation, unwrap of the Option,
\* unwrap of the downcast
Lookup(arena, h, ty) ==
    LET ig == index_gen(h) IN
    IF ig.index >= Len(arena) THEN "index"
    ELSE LET slot == arena[ig.index + 1] IN
         IF slot.gen # ig.gen THEN "generation"
         ELSE IF slot.value = None THEN "empty"
         ELSE IF slot.value.ty # ty THEN "type"
         ELSE "none"

\* an accessor that ignores the index of the handle
SlotOfFirst(arena, h) == arena[1]

SlotOf(arena, h) == arena[index_gen(h).index + 1]

\* ghost: a take(h) has removed the value of this handle before
Stale(h) == \E r \in issued : r.h = h /\ r.taken

Access(op, h, ty) ==
    LET cause == Lookup(externs, h, ty) IN
    /\ last' = Result(op, h, ty, 0, IF cause = "none" THEN "ok" ELSE "fault", cause,
                      IF cause = "none" THEN SlotOf(externs, h).value ELSE None,
                      NoHandle, Stale(h), FALSE)
    /\ UNCHANGED <<externs, issued, peak>>

get_extern(h, ty) == Access("get", h, ty)

get_extern_mut(h, ty) == Access("get_mut", h, ty)

\* a take that borrows the value and leaves it in the slot
TakeKeepsValue(h, ty) == Access("take", h, ty)

\* a take that empties every slot of the arena
TakeEmptiesAll(h, ty) ==
    LET cause == Lookup(externs, h, ty)
        i == index_gen(h).index + 1 IN
    /\ last' = Result("take", h, ty, 0, IF cause = "none" THEN "ok" ELSE "fault", cause,
                      IF cause = "none" THEN SlotOf(externs, h).value ELSE None,
                      NoHandle, Stale(h), FALSE)
    /\ externs' = IF cause \in {"none", "type"}
                  THEN [k \in 1..Len(externs) |-> [externs[k] EXCEPT !.value = None]]
                  ELSE externs
    /\ issued' = IF cause \in {"none", "type"}
                 THEN {IF r.h = h THEN [h |-> h, ty |-> "none", v |-> 0, taken |-> TRUE]
                                  ELSE r : r \in issued}
                 ELSE issued
    /\ UNCHANGED peak

\* `slot.value.take()` empties the slot before the unwraps run
take_extern(h, ty) ==
    LET cause == Lookup(externs, h, ty)
        i == index_gen(h).index + 1 IN
    /\ last' = Result("take", h, ty, 0, IF cause = "none" THEN "ok" ELSE "fault", cause,
                      IF cause = "none" THEN SlotOf(externs, h).value ELSE None,
                      NoHandle, Stale(h), FALSE)
    /\ externs' = IF cause \in {"none", "type"}
                  THEN [externs EXCEPT ![i].value = None]
                  ELSE externs
    /\ issued' = IF cause \in {"none", "type"}
                 THEN {IF r.h = h THEN [h |-> h, ty |-> "none", v |-> 0, taken |-> TRUE]
                                  ELSE r : r \in issued}
                 ELSE issued
    /\ UNCHANGED peak

(***************************************************************************)
(* The handles a caller may present: the ones create returned (live and    *)
(* stale) and one whose index is past the end of the arena.                *)
(***************************************************************************)
HandleChoices == HandlesOf(issued) \cup {from_index_gen(Len(externs), 0)}

\* Externs::default()
ExternsInit ==
    /\ externs = <<>>
    /\ issued = {}
    /\ peak = 0
    /\ last = [op |-> "init", arg |-> NoHandle, ty |-> "none", v |-> 0, result |-> "ok",
               cause |-> "none", ret |-> None, handle |-> NoHandle, stale |-> FALSE,
               dup |-> FALSE]

(***************************************************************************)
(* ModuleEnv: the declarations translate_module makes for the memory and   *)
(* data sections.  The binary format orders the memory section before the  *)
(* data section, and a data segment names a declared memory.               *)
(***************************************************************************)
NoBase == -1

\* DataInitialization::default()
DefaultInit == [base |-> NoBase, offset |-> 0, data |-> <<>>]

\* the declared sizes (bytes) of a memory; load_module never reads them
MemoryLimits == {4, 16}
\* the offsets and contents of the data segments a module may declare
OffsetChoices == {0, 2, 10}
DataChoices == {<<1, 2, 3>>, <<9, 9>>, <<104, 0, 105>>}

\* SecondaryMap: reading a key never written yields the default
MapGet(map, k) == IF k + 1 <= Len(map) THEN map[k + 1] ELSE DefaultInit

\* SecondaryMap: writing a key grows the map with defaults up to it
MapSet(map, k, val) ==
    [i \in 1..(IF k + 1 > Len(map) THEN k + 1 ELSE Len(map)) |->
        IF i = k + 1 THEN val ELSE IF i <= Len(map) THEN map[i] ELSE DefaultInit]

declare_memory(mem) ==
    /\ pc = "translate"
    /\ segments = <<>>
    /\ Len(memories) < MaxMemories
    /\ memories' = Append(memories, mem)
    /\ UNCHANGED <<pc, data_initializations, segments, memory, loaded>>

declare_data_initialization(memory_index, base, offset, data) ==
    /\ pc = "translate"
    /\ Len(segments) < MaxSegments
    /\ data_initializations' =
          MapSet(data_initializations, memory_index,
                 [base |-> base, offset |-> offset, data |-> data])
    /\ segments' = Append(segments, [memory_index |-> memory_index,
                                     offset |-> offset, data |-> data])
    /\ UNCHANGED <<pc, memories, memory, loaded>>

(***************************************************************************)
(* load_module: initialisation of the linear memory and the context        *)
(***************************************************************************)
Zeros(n) == [i \in 1..n |-> 0]

\* one turn of the loop over `memories`
InitOne(mem, init) ==
    LET init_len == Len(init.data)
        init_end == init.offset + init_len
        resized == IF Len(mem) < init_end THEN mem \o Zeros(init_end - Len(mem)) ELSE mem
    IN  [i \in 1..Len(resized) |->
            IF i > init.offset /\ i <= init_end THEN init.data[i - init.offset] ELSE resized[i]]

RECURSIVE InitLoop(_, _, _)
InitLoop(mem, index, inits) ==
    IF index >= Len(memories) THEN mem
    ELSE InitLoop(InitOne(mem, MapGet(inits, index)), index + 1, inits)

\* the module environment pass is over; the memory is built and moved into
\* the VMContext that load_module returns
load_module_memory ==
    /\ pc = "translate"
    /\ pc' = "ready"
    /\ memory' = InitLoop(<<>>, 0, data_initializations)
    /\ UNCHANGED <<memories, data_initializations, segments, loaded>>

(***************************************************************************)
(* Memory::load and the Loadable implementations                           *)
(***************************************************************************)
Ok(val) == [ok |-> TRUE, value |-> val, fault |-> FALSE]
Err == [ok |-> FALSE, value |-> <<>>, fault |-> FALSE]
\* a panic: the call returns nothing
Panic == [ok |-> FALSE, value |-> <<>>, fault |-> TRUE]

\* a byte span load that rejects the offset at the end of the memory
LoadBytesStrict(mem, offset) ==
    IF offset < Len(mem) THEN Ok(SubSeq(mem, offset + 1, Len(mem))) ELSE Err

\* impl Loadable for [u8]: memory.get(offset..)
LoadBytes(mem, offset) ==
    IF offset <= Len(mem) THEN Ok(SubSeq(mem, offset + 1, Len(mem))) ELSE Err

\* the index of the first zero byte, or -1
Position(bytes) ==
    IF \E i \in 1..Len(bytes) : bytes[i] = 0
    THEN (CHOOSE i \in 1..Len(bytes) : bytes[i] = 0 /\ \A j \in 1..(i - 1) : bytes[j] # 0) - 1
    ELSE -1

\* CStr::from_bytes_with_nul: the slice must end with its only zero byte; the
\* string is the bytes before it
FromBytesWithNul(bytes) ==
    IF /\ Len(bytes) > 0
       /\ bytes[Len(bytes)] = 0
       /\ \A i \in 1..(Len(bytes) - 1) : bytes[i] # 0
    THEN Ok(SubSeq(bytes, 1, Len(bytes) - 1))
    ELSE Err

\* &memory[..end]: the slice index panics past the end of the slice
SliceTo(bytes, end) == IF end <= Len(bytes) THEN Ok(SubSeq(bytes, 1, end)) ELSE Panic

\* impl Loadable for CStr
LoadCStr(mem, offset) ==
    LET slice == LoadBytes(mem, offset) IN
    IF ~slice.ok THEN Err
    ELSE LET end == Position(slice.value) IN
         IF end = -1 THEN Err
         ELSE LET head == SliceTo(slice.value, end) IN
              IF head.fault THEN Panic ELSE FromBytesWithNul(head.value)

\* Memory::load takes &self and the Loadable implementations a &[u8]
MemoryLoadConsumes(kind, offset) ==
    /\ pc = "ready"
    /\ LET res == IF kind = "cstr" THEN LoadCStr(memory, offset) ELSE LoadBytes(memory, offset)
       IN /\ loaded' = [kind |-> kind, offset |-> offset, ok |-> res.ok, value |-> res.value,
                        fault |-> res.fault]
          /\ memory' = IF res.ok THEN res.value ELSE memory
    /\ UNCHANGED <<pc, memories, data_initializations, segments>>
Memory_load(kind, offset) ==
    /\ pc = "ready"
    /\ LET res == IF kind = "cstr" THEN LoadCStr(memory, offset) ELSE LoadBytes(memory, offset)
       IN loaded' = [kind |-> kind, offset |-> offset, ok |-> res.ok, value |-> res.value,
                     fault |-> res.fault]
    /\ UNCHANGED <<pc, memories, data_initializations, segments, memory>>

(***************************************************************************)
(* The host Environment and the values it hands to the module environment  *)
(***************************************************************************)
\* the wasm function types of the modules and of the host functions
SigChoices == {"()->()", "(i32)->()"}
\* Signature::from_wasm: the wasm type is the part the loader compares
SignatureOf(wasm) == [wasm |-> wasm]

\* native pointers: of a host function, of the code emitted for a FuncId
HostPointer(p) == [kind |-> "host", at |-> p]
JitPointer(id) == [kind |-> "jit", at |-> id]
NullPointer == [kind |-> "null", at |-> "null"]

\* Environment::import_function -> Option<Function>
NoFunction == [some |-> FALSE, pointer |-> NullPointer, signature |-> SignatureOf("none")]
SomeFunction(p, wasm) == [some |-> TRUE, pointer |-> HostPointer(p), signature |-> SignatureOf(wasm)]

\* Environment::import_global -> Option<GlobalValue>; GlobalValue::Const(u32)
NoGlobal == [some |-> FALSE, const |-> "none"]
Const(c) == [some |-> TRUE, const |-> c]

\* the (module, field) names of the imports of a module
Name(module, field) == [module |-> module, field |-> field]
FuncImportNames == {Name("a::b", "c"), Name("a", "b::c"), Name("env", "f"), Name("env", "g")}
GlobalImportNames == {Name("sys", "lvl"), Name("sys", "dbg"), Name("sys", "err")}

\* the Environment of the host: the functions and constants it knows
import_function(module, field) ==
    CASE Name(module, field) = Name("a::b", "c") -> SomeFunction("host_1", "()->()")
      [] Name(module, field) = Name("a", "b::c") -> SomeFunction("host_2", "()->()")
      [] Name(module, field) = Name("env", "f") -> SomeFunction("host_3", "()->()")
      [] OTHER -> NoFunction
import_global(module, field) ==
    CASE Name(module, field) = Name("sys", "lvl") -> Const("const_1")
      [] Name(module, field) = Name("sys", "dbg") -> Const("const_2")
      [] OTHER -> NoGlobal
(***************************************************************************)
(* The addon: Module is Arc<Mutex<VMContext<FabricEnv>>> and every         *)
(* FabricListener of a module holds a clone of it.                         *)
(***************************************************************************)
\* the threads on which the event manager calls fire_game_event
Threads == {"t1", "t2"}
\* the events one thread delivers
MaxEvents == 2
\* the Mutex: the thread whose MutexGuard is alive
Unlocked == "none"
\* a thread outside fire_game_event
Idle == [at |-> "idle", handle |-> 0, fired |-> 0]
\* the TypeId of Box<dyn GameEvent> and the events delivered
EventType == "Box<dyn GameEvent>"
Events == {[ty |-> EventType, v |-> 1], [ty |-> EventType, v |-> 2]}

\* Mutex::lock blocks until no guard is alive
LockWithoutWaiting(t) == mutex' = t
lock(t) ==
    /\ mutex = Unlocked
    /\ mutex' = t
\* the MutexGuard `lock` goes out of scope
drop_guard(t) ==
    /\ mutex = t
    /\ mutex' = Unlocked

\* the declared type and mutability of a global import
WasmTypes == {"externref", "i32"}

\* format!("{}::{}", module, field)
SymbolNameFieldOnly(module, field) == field
SymbolName(module, field) == module \o "::" \o field

\* WasmError::User(format!(...)): the message names its arguments
WasmErrorUser(what, module, field) == [what |-> what, module |-> module, field |-> field]
NoError == WasmErrorUser("none", "", "")

\* how load_module ends: Result::unwrap on an Err panics
UnwrapReturnsError(err) == [kind |-> "error", error |-> err]
Unwrap(err) == [kind |-> "panic", error |-> err]
\* a panic! raised by the callee
PanicWith(err) == [kind |-> "panic", error |-> err]
Running == [kind |-> "none", error |-> NoError]
Returned == [kind |-> "context", error |-> NoError]

(***************************************************************************)
(* translate_module: the sections of the binary come in a fixed order and  *)
(* each drives the callbacks of the ModuleEnvironment.                     *)
(***************************************************************************)
SectionOrder == <<"none", "type", "import", "function", "table", "memory", "global", "export",
                  "start", "element", "code", "data">>
Rank(s) == CHOOSE i \in 1..Len(SectionOrder) : SectionOrder[i] = s
SectionAt(s) == pc = "translate" /\ Rank(section) <= Rank(s)

\* the lists of the module environment as a callback finds them
Lists == [signatures |-> signatures, functions |-> functions, globals |-> globals,
          imported_functions |-> imported_functions, asked |-> Len(host)]
NoCallback == [name |-> "none", module |-> "", field |-> "", wasm_ty |-> "none",
               mutability |-> FALSE, before |-> Lists, ret |-> "none", error |-> NoError]
\* an import callback: its arguments, the lists it found and what it returned
Callback(name, module, field, wasm_ty, mutability, ret, err) ==
    [name |-> name, module |-> module, field |-> field, wasm_ty |-> wasm_ty,
     mutability |-> mutability, before |-> Lists, ret |-> ret, error |-> err]

\* a callback returned Err: translate_module returns it and load_module unwraps
TranslateGoesOn(err) ==
    /\ pc' = pc
    /\ outcome' = Unwrap(err)
TranslateFails(err) ==
    /\ pc' = "panicked"
    /\ outcome' = Unwrap(err)

declare_signature(wasm) ==
    /\ SectionAt("type")
    /\ Len(signatures) < MaxSignatures
    /\ signatures' = Append(signatures, SignatureOf(wasm))
    /\ section' = "type"
    /\ UNCHANGED <<pc, functions, globals, imported_functions, defined_functions,
                   start_func, host, callback, outcome>>

\* Signature::check_wasm: the host signature against the requested type
check_wasm(signature, wasm) == signature.wasm = wasm

FuncImport(sig_index, module, field, response) ==
    LET requested == signatures[sig_index + 1].wasm
        Returns(ret, err) ==
            callback' = Callback("declare_func_import", module, field, requested, FALSE, ret, err)
    IN
    /\ SectionAt("import")
    /\ Len(host) < MaxImports
    /\ sig_index < Len(signatures) - Len(imported_functions)
    /\ section' = "import"
    /\ host' = Append(host, [kind |-> "function", module |-> module, field |-> field,
                             response |-> response])
    /\ IF response.some
       THEN IF check_wasm(response.signature, requested)
            THEN /\ signatures' = Append(signatures, response.signature)
                 /\ functions' = Append(functions, Len(signatures))
                 /\ imported_functions' =
                       Append(imported_functions,
                              [name |-> SymbolName(module, field), ptr |-> response.pointer])
                 /\ Returns("ok", NoError)
                 /\ UNCHANGED <<pc, outcome>>
            ELSE /\ Returns("panic", WasmErrorUser("incompatible signature", module, field))
                 /\ pc' = "panicked"
                 /\ outcome' = PanicWith(WasmErrorUser("incompatible signature", module, field))
                 /\ UNCHANGED <<signatures, functions, imported_functions>>
       ELSE /\ Returns("err", WasmErrorUser("unknown function", module, field))
            /\ TranslateFails(WasmErrorUser("unknown function", module, field))
            /\ UNCHANGED <<signatures, functions, imported_functions>>
    /\ UNCHANGED <<globals, defined_functions, start_func>>

declare_func_import(sig_index, module, field) ==
    FuncImport(sig_index, module, field, import_function(module, field))

\* the two checks made on a GlobalValue::Const
ConstErrorTypeOnly(wasm_ty, mutability) ==
    IF wasm_ty # "externref" THEN "invalid type for constant" ELSE "none"
ConstError(wasm_ty, mutability) ==
    IF wasm_ty # "externref" THEN "invalid type for constant"
    ELSE IF mutability THEN "invalid mutability for constant"
    ELSE "none"

GlobalImport(wasm_ty, mutability, module, field, response) ==
    LET Returns(ret, err) ==
            callback' = Callback("declare_global_import", module, field, wasm_ty, mutability,
                                 ret, err)
    IN
    /\ SectionAt("import")
    /\ Len(host) < MaxImports
    /\ section' = "import"
    /\ host' = Append(host, [kind |-> "global", module |-> module, field |-> field,
                             response |-> response])
    /\ IF response.some
       THEN IF ConstError(wasm_ty, mutability) # "none"
            THEN /\ Returns("err", WasmErrorUser(ConstError(wasm_ty, mutability), module, field))
                 /\ TranslateFails(WasmErrorUser(ConstError(wasm_ty, mutability), module, field))
                 /\ UNCHANGED globals
            ELSE /\ globals' = Append(globals, response)
                 /\ Returns("ok", NoError)
                 /\ UNCHANGED <<pc, outcome>>
       ELSE /\ Returns("err", WasmErrorUser("unknown global", module, field))
            /\ TranslateFails(WasmErrorUser("unknown global", module, field))
            /\ UNCHANGED globals
    /\ UNCHANGED <<signatures, functions, imported_functions, defined_functions, start_func>>

declare_global_import(wasm_ty, mutability, module, field) ==
    GlobalImport(wasm_ty, mutability, module, field, import_global(module, field))

declare_func_type(sig_index) ==
    /\ SectionAt("function")
    /\ Len(functions) - Len(imported_functions) < MaxDefined
    /\ sig_index < Len(signatures) - Len(imported_functions)
    /\ section' = "function"
    /\ functions' = Append(functions, sig_index)
    /\ UNCHANGED <<pc, signatures, globals, imported_functions, defined_functions,
                   start_func, host, callback, outcome>>

NoStart == [some |-> FALSE, index |-> 0]

declare_start_func(index) ==
    /\ SectionAt("start")
    /\ section # "start"
    /\ index < Len(functions)
    /\ section' = "start"
    /\ start_func' = [some |-> TRUE, index |-> index]
    /\ UNCHANGED <<pc, signatures, functions, globals, imported_functions, defined_functions,
                   host, callback, outcome>>

\* what a function body is to the translator
BodyChoices == {"plain", "unsupported"}

\* the code section holds one body per function of the function section
define_function_body(body_bytes, body_offset) ==
    /\ SectionAt("code")
    /\ Len(defined_functions) < Len(functions) - Len(imported_functions)
    /\ section' = "code"
    /\ defined_functions' =
          Append(defined_functions, [body_bytes |-> body_bytes, body_offset |-> body_offset])
    /\ UNCHANGED <<pc, signatures, functions, globals, imported_functions, start_func,
                   host, callback, outcome>>

\* a callback whose body is Ok(()): it records nothing
BuilderOk(name, sec) ==
    /\ SectionAt(sec)
    /\ section' = sec
    /\ callback' = Callback(name, "", "", "none", FALSE, "ok", NoError)
    /\ UNCHANGED <<pc, signatures, functions, globals, imported_functions, defined_functions,
                   start_func, host, outcome>>
\* a callback whose body is panic!(...) with its arguments
BuilderPanics(name, module, field) ==
    /\ SectionAt("import")
    /\ section' = "import"
    /\ callback' = Callback(name, module, field, "none", FALSE, "panic",
                            WasmErrorUser(name, module, field))
    /\ pc' = "panicked"
    /\ outcome' = PanicWith(WasmErrorUser(name, module, field))
    /\ UNCHANGED <<signatures, functions, globals, imported_functions, defined_functions,
                   start_func, host>>

declare_table_import(module, field) == BuilderPanics("declare_table_import", module, field)
declare_memory_import(module, field) == BuilderPanics("declare_memory_import", module, field)
declare_table == BuilderOk("declare_table", "table")
\* a global the module defines is not pushed to module.globals
DeclareGlobalRecords ==
    /\ SectionAt("global")
    /\ section' = "global"
    /\ callback' = Callback("declare_global", "", "", "none", FALSE, "ok", NoError)
    /\ globals' = Append(globals, Const("const_0"))
    /\ UNCHANGED <<pc, signatures, functions, imported_functions, defined_functions,
                   start_func, host, outcome>>
declare_global == BuilderOk("declare_global", "global")
ExportKinds == {"func", "table", "memory", "global"}
declare_export(kind) == BuilderOk("declare_" \o kind \o "_export", "export")
declare_table_elements == BuilderOk("declare_table_elements", "element")
declare_passive_element == BuilderOk("declare_passive_element", "element")
declare_passive_data == BuilderOk("declare_passive_data", "data")

(***************************************************************************)
(* load_module, step by step.  pc names the step that was completed last:  *)
(* "parse" is the call of load_module, "panicked" the unwinding out of it  *)
(* and "ready" its return.                                                 *)
(***************************************************************************)
SourceChoices == {"well-formed", "malformed"}

\* wat::parse_str, then ModuleEnv::new and the call of translate_module
parse_str(source) ==
    /\ pc = "parse"
    /\ IF source = "well-formed"
       THEN /\ pc' = "translate"
            /\ steps' = <<"parse", "declare">>
            /\ UNCHANGED outcome
       ELSE /\ pc' = "panicked"
            /\ steps' = <<"parse">>
            /\ outcome' = PanicWith(WasmErrorUser("malformed source", "", ""))

\* translate_module returned Ok: every section was read
TranslateDone ==
    /\ pc = "translate"
    /\ Len(defined_functions) = Len(functions) - Len(imported_functions)

\* the loop over imported_functions that calls SimpleJITBuilder::symbol
register_symbols ==
    /\ TranslateDone
    /\ pc' = "linked"
    /\ steps' = Append(steps, "symbols")
    /\ symbols' = imported_functions
    /\ UNCHANGED <<declared, definitions, list, table, outcome>>

\* the linker resolves a name to the pointer registered last under it
HasSymbol(syms, name) == \E i \in 1..Len(syms) : syms[i].name = name
Resolve(syms, name) ==
    LET i == CHOOSE k \in 1..Len(syms) :
                 /\ syms[k].name = name
                 /\ \A j \in (k + 1)..Len(syms) : syms[j].name # name
    IN  syms[i].ptr

\* a call site names its callee ExternalName::user(0, func_index), which the
\* cranelift Module reads as the FuncId of that number: an Import is
\* resolved by its declared name, an Export is the code emitted for it
CallTarget(decls, syms, func_index) ==
    IF func_index >= Len(decls) THEN NullPointer
    ELSE IF decls[func_index + 1].linkage = "Export" THEN JitPointer(func_index)
    ELSE IF HasSymbol(syms, decls[func_index + 1].name)
         THEN Resolve(syms, decls[func_index + 1].name)
         ELSE NullPointer

\* the entries of `list` and of the functions table: Option<...>
NoEntry == [some |-> FALSE, id |-> 0, signature |-> SignatureOf("none"), pointer |-> NullPointer]
ListEntry(id, signature) ==
    [some |-> TRUE, id |-> id, signature |-> signature, pointer |-> NullPointer]

\* Module::declare_function: a name declared before keeps its FuncId
DeclaredId(decls, name) == (CHOOSE i \in 1..Len(decls) : decls[i].name = name) - 1
IsDeclared(decls, name) == \E i \in 1..Len(decls) : decls[i].name = name

\* func_index.checked_sub(imported_functions.len()): the index of the body
DefinedIndexOfWhole(func_index) == func_index
DefinedIndex(func_index) == func_index - Len(imported_functions)

\* one turn of the loop over defs.functions; st.error # NoError once a
\* call was unwrapped on an Err
FunctionTurn(st, func_index) ==
    LET signature == signatures[functions[func_index + 1] + 1]
        imported == func_index < Len(imported_functions)
        defined_index == DefinedIndex(func_index)
        defined == defined_index >= 0 /\ defined_index < Len(defined_functions)
        name == IF imported THEN imported_functions[func_index + 1].name
                ELSE "func_" \o ToString(func_index)
        linkage == IF defined THEN "Export" ELSE "Import"
        known == IsDeclared(st.declared, name)
        id == IF known THEN DeclaredId(st.declared, name) ELSE Len(st.declared)
        decls == IF known THEN st.declared
                 ELSE Append(st.declared, [name |-> name, linkage |-> linkage,
                                           signature |-> signature])
    IN  IF known /\ st.declared[id + 1].signature # signature
        THEN [st EXCEPT !.error = WasmErrorUser("incompatible declaration", name, "")]
        ELSE IF ~defined
        THEN [st EXCEPT !.declared = decls, !.list = Append(st.list, NoEntry)]
        ELSE LET body == defined_functions[defined_index + 1] IN
             IF body.body_bytes = "unsupported"
             THEN [st EXCEPT !.declared = decls,
                             !.error = WasmErrorUser("unsupported body", name, "")]
             ELSE [st EXCEPT !.declared = decls,
                             !.definitions = Append(st.definitions,
                                                    [id |-> id, body_offset |-> body.body_offset]),
                             !.list = Append(st.list, ListEntry(id, signature))]

RECURSIVE FunctionLoop(_, _)
FunctionLoop(st, func_index) ==
    IF func_index >= Len(functions) \/ st.error # NoError THEN st
    ELSE FunctionLoop(FunctionTurn(st, func_index), func_index + 1)

\* Module::new and the loop that declares and compiles the functions
declare_functions ==
    /\ pc = "linked"
    /\ steps' = Append(steps, "functions")
    /\ LET st == FunctionLoop([declared |-> <<>>, definitions |-> <<>>, list |-> <<>>,
                               error |-> NoError], 0)
       IN  /\ declared' = st.declared
           /\ definitions' = st.definitions
           /\ list' = st.list
           /\ IF st.error = NoError
              THEN pc' = "compiled" /\ UNCHANGED outcome
              ELSE pc' = "panicked" /\ outcome' = Unwrap(st.error)
    /\ UNCHANGED <<symbols, table>>

\* the table finalize_definitions leaves: a pointer for each compiled entry
TableOf(entries) ==
    [i \in 1..Len(entries) |->
        IF entries[i].some THEN [entries[i] EXCEPT !.pointer = JitPointer(entries[i].id)]
        ELSE NoEntry]

\* Module::finalize_definitions, then the functions table
finalize_definitions ==
    /\ pc = "compiled"
    /\ pc' = "finalized"
    /\ steps' = Append(steps, "finalize")
    /\ table' = TableOf(list)
    /\ UNCHANGED <<symbols, declared, definitions, list, outcome>>

\* the loop over `memories`
build_memory ==
    /\ pc = "finalized"
    /\ pc' = "memory"
    /\ steps' = Append(steps, "memory")
    /\ memory' = InitLoop(<<>>, 0, data_initializations)

\* VMContext { .. }
construct_context ==
    /\ pc = "memory"
    /\ pc' = "context"
    /\ steps' = Append(steps, "context")

\* the start function, then the return of the context
run_start ==
    /\ pc = "context"
    /\ pc' = "ready"
    /\ steps' = Append(steps, "start")
    /\ outcome' = Returned
    /\ IF start_func.some /\ table[start_func.index + 1].some
       THEN started' = Append(started, [index |-> start_func.index,
                                        pointer |-> table[start_func.index + 1].pointer,
                                        functions |-> table, memory |-> memory])
       ELSE UNCHANGED started

(***************************************************************************)
(* FunctionEnv: the callbacks FuncTranslator::translate makes while it     *)
(* reads the body of a defined function.  Each returns Ok with what it     *)
(* emitted, returns Err, or panics.                                        *)
(***************************************************************************)
NoInst == [inst |-> "none"]
LoweredOk(inst) == [ret |-> "ok", inst |-> inst, error |-> NoError]
LoweredErr(what) == [ret |-> "err", inst |-> NoInst, error |-> WasmErrorUser(what, "", "")]
LoweredPanic(what) == [ret |-> "panic", inst |-> NoInst, error |-> WasmErrorUser(what, "", "")]

\* pos.func.special_param(ArgumentPurpose::VMContext) of the calling function
VMContextParam == "vmctx"
\* the longest argument list of a call site
MaxArgs == 2
\* the argument lists of the call sites: the values v0, v1, ... in order
ArgLists == {[i \in 1..n |-> "v" \o ToString(i - 1)] : n \in 0..MaxArgs}

\* FunctionEnv::make_direct_func: the callee is named by its function index
make_direct_func(index) ==
    [name |-> index, signature |-> signatures[functions[index + 1] + 1], colocated |-> FALSE]

\* FunctionEnv::translate_call
TranslateCallBare(vmctx, callee, call_args) ==
    IF ~vmctx THEN LoweredErr("missing vmtcx parameter")
    ELSE LoweredOk([inst |-> "call", callee |-> callee, args |-> call_args])
translate_call(vmctx, callee, call_args) ==
    IF ~vmctx THEN LoweredErr("missing vmtcx parameter")
    ELSE LoweredOk([inst |-> "call", callee |-> callee,
                    args |-> <<VMContextParam>> \o call_args])

\* ExternRef::from_const: the handle that stands for a host constant
from_const(value) == value

\* FunctionEnv::make_global: PrimaryMap indexing panics past the end
make_global(index) ==
    IF index >= Len(globals) THEN LoweredPanic("index out of bounds")
    ELSE LoweredOk([inst |-> "none", variable |-> "Custom"])

\* FunctionEnv::translate_custom_global_get
GlobalGetFirst(index) ==
    IF index >= Len(globals) THEN LoweredPanic("index out of bounds")
    ELSE LoweredOk([inst |-> "iconst", ty |-> "I64", imm |-> from_const(globals[1].const)])
translate_custom_global_get(index) ==
    IF index >= Len(globals) THEN LoweredPanic("index out of bounds")
    ELSE LoweredOk([inst |-> "iconst", ty |-> "I64", imm |-> from_const(globals[index + 1].const)])

\* FunctionEnv::translate_custom_global_set
translate_custom_global_set(index) == LoweredPanic("translate_custom_global_set")

\* the callbacks whose body is panic!("<name>")
UnsupportedOps ==
    {"make_heap", "make_table", "make_indirect_sig", "translate_call_indirect",
     "translate_memory_grow", "translate_memory_size", "translate_memory_copy",
     "translate_memory_fill", "translate_memory_init", "translate_data_drop",
     "translate_table_size", "translate_table_grow", "translate_table_get",
     "translate_table_set", "translate_table_copy", "translate_table_fill",
     "translate_table_init", "translate_elem_drop",
     "translate_atomic_wait", "translate_atomic_notify"}
UnsupportedEmits(op) == LoweredOk([inst |-> op])
Unsupported(op) == LoweredPanic(op)

\* one callback of the translator: an Err is returned by translate and
\* unwrapped by load_module, a panic unwinds out of it
Lowering(op, index, vmctx, args, res) ==
    /\ pc = "linked"
    /\ defined_functions # <<>>
    /\ lowered' = [op |-> op, index |-> index, vmctx |-> vmctx, args |-> args,
                   ret |-> res.ret, inst |-> res.inst]
    /\ IF res.ret = "ok" THEN UNCHANGED <<pc, outcome>>
       ELSE /\ pc' = "panicked"
            /\ outcome' = IF res.ret = "err" THEN Unwrap(res.error) ELSE PanicWith(res.error)

\* no FuncEnvironment callback was made yet
NoLowering == [op |-> "none", index |-> 0, vmctx |-> FALSE, args |-> <<>>,
               ret |-> "none", inst |-> NoInst]

\* FunctionEnv::translate_ref_func: iconst.i32 of the function index
translate_ref_func(func_index) == [inst |-> "iconst", ty |-> "I32", imm |-> func_index]
\* the FuncRef a host function receives for a guest value
FuncRefOf(value) == value.imm

\* VMContext::function: Vec::get and Option::as_ref; tbl[index] would fault
\* on an index out of the table
FunctionAtIndexed(tbl, index) ==
    IF index < Len(tbl) THEN [fault |-> FALSE, entry |-> tbl[index + 1]]
    ELSE [fault |-> TRUE, entry |-> NoEntry]
FunctionAt(tbl, index) ==
    IF index < Len(tbl) THEN [fault |-> FALSE, entry |-> tbl[index + 1]]
    ELSE [fault |-> FALSE, entry |-> NoEntry]

VMContext_function(index) ==
    /\ pc = "ready"
    /\ LET got == FunctionAt(table, index)
       IN lookup' = [called |-> TRUE, index |-> index, ret |-> got.entry, fault |-> got.fault]

LinkInit ==
    /\ section = "none"
    /\ signatures = <<>>
    /\ functions = <<>>
    /\ globals = <<>>
    /\ imported_functions = <<>>
    /\ defined_functions = <<>>
    /\ start_func = NoStart
    /\ host = <<>>
    /\ callback = NoCallback
    /\ symbols = <<>>
    /\ declared = <<>>
    /\ definitions = <<>>
    /\ list = <<>>
    /\ table = <<>>
    /\ steps = <<>>
    /\ outcome = Running
    /\ started = <<>>
    /\ lookup = [called |-> FALSE, index |-> 0, ret |-> NoEntry, fault |-> FALSE]
    /\ lowered = NoLowering
    /\ mutex = Unlocked
    /\ threads = [t \in Threads |-> Idle]

\* ModuleEnv::new
LoadInit ==
    /\ pc = "translate"
    /\ memories = <<>>
    /\ data_initializations = <<>>
    /\ segments = <<>>
    /\ memory = <<>>
    /\ loaded = [kind |-> "none", offset |-> 0, ok |-> FALSE, value |-> <<>>, fault |-> FALSE]

Init == ExternsInit /\ LoadInit /\ LinkInit

Create ==
    /\ \E p \in Payloads :
          create_extern(p.ty, p.v, MaxSlots, MaxGen, MaxSlots * (MaxGen + 1))
    /\ UNCHANGED <<loadVars, linkVars>>
Get ==
    /\ \E h \in HandleChoices, ty \in Types : get_extern(h, ty)
    /\ UNCHANGED <<loadVars, linkVars>>
GetMut ==
    /\ \E h \in HandleChoices, ty \in Types : get_extern_mut(h, ty)
    /\ UNCHANGED <<loadVars, linkVars>>
Take ==
    /\ \E h \in HandleChoices, ty \in Types : take_extern(h, ty)
    /\ UNCHANGED <<loadVars, linkVars>>

Next == Create \/ Get \/ GetMut \/ Take

Spec == Init /\ [][Next]_vars

(***************************************************************************)
(* The same operations on a one-slot arena whose generation runs through   *)
(* the whole u16 range: the callers present the handle they kept from the  *)
(* first create and the handle of the value now stored.                    *)
(***************************************************************************)
WrapHandleChoices ==
    HandlesOf(issued) \cup {from_index_gen(i - 1, externs[i].gen) : i \in 1..Len(externs)}

WrapCreate ==
    /\ \E p \in WrapPayloads :
          create_extern(p.ty, p.v, WrapSlots, GenModulus, WrapHeld)
    /\ UNCHANGED <<loadVars, linkVars>>
WrapGet ==
    /\ \E h \in WrapHandleChoices, ty \in WrapTypes : get_extern(h, ty)
    /\ UNCHANGED <<loadVars, linkVars>>
WrapGetMut ==
    /\ \E h \in WrapHandleChoices, ty \in WrapTypes : get_extern_mut(h, ty)
    /\ UNCHANGED <<loadVars, linkVars>>
WrapTake ==
    /\ \E h \in WrapHandleChoices, ty \in WrapTypes : take_extern(h, ty)
    /\ UNCHANGED <<loadVars, linkVars>>

NextWrap == WrapCreate \/ WrapGet \/ WrapGetMut \/ WrapTake

SpecWrap == Init /\ [][NextWrap]_vars

(***************************************************************************)
(* load_module on a module with memories and data segments, then loads     *)
(* from the memory of the context it returned.                             *)
(***************************************************************************)
DeclareMemory ==
    /\ \E limit \in MemoryLimits : declare_memory([limit |-> limit])
    /\ UNCHANGED <<externsVars, linkVars>>
DeclareData ==
    /\ \E memory_index \in 0..(Len(memories) - 1), offset \in OffsetChoices, data \in DataChoices :
          declare_data_initialization(memory_index, NoBase, offset, data)
    /\ UNCHANGED <<externsVars, linkVars>>
LoadModule ==
    /\ load_module_memory
    /\ UNCHANGED <<externsVars, linkVars>>
MemoryLoad ==
    /\ \E kind \in {"bytes", "cstr"}, offset \in 0..(Len(memory) + 1) : Memory_load(kind, offset)
    /\ UNCHANGED <<externsVars, linkVars>>

NextLoad == DeclareMemory \/ DeclareData \/ LoadModule \/ MemoryLoad

SpecLoad == Init /\ [][NextLoad]_vars

(***************************************************************************)
(* load_module from the call to the return, on a module with signatures,   *)
(* imports, functions and a start function, then lookups in the functions  *)
(* table of the context it returned.                                       *)
(***************************************************************************)
InitLink ==
    /\ ExternsInit
    /\ LinkInit
    /\ pc = "parse"
    /\ memories = <<>>
    /\ data_initializations = <<>>
    /\ segments = <<>>
    /\ memory = <<>>
    /\ loaded = [kind |-> "none", offset |-> 0, ok |-> FALSE, value |-> <<>>, fault |-> FALSE]

memVars == <<memories, data_initializations, segments, memory, loaded>>

LinkMemoryLimits == {16}
LinkSegments == {[offset |-> 2, data |-> <<9, 9>>]}

Parse ==
    /\ \E source \in SourceChoices : parse_str(source)
    /\ UNCHANGED <<externsVars, useVars, memVars, envVars, jitVars, started, lookup>>
DeclareSignature ==
    /\ \E wasm \in SigChoices : declare_signature(wasm)
    /\ UNCHANGED <<externsVars, useVars, memVars, jitVars, steps, started, lookup>>
DeclareFuncImport ==
    /\ \E sig_index \in 0..(Len(signatures) - 1), n \in FuncImportNames :
          declare_func_import(sig_index, n.module, n.field)
    /\ UNCHANGED <<externsVars, useVars, memVars, jitVars, steps, started, lookup>>
DeclareGlobalImport ==
    /\ \E wasm_ty \in WasmTypes, mutability \in BOOLEAN, n \in GlobalImportNames :
          declare_global_import(wasm_ty, mutability, n.module, n.field)
    /\ UNCHANGED <<externsVars, useVars, memVars, jitVars, steps, started, lookup>>
DeclareFuncType ==
    /\ \E sig_index \in 0..(Len(signatures) - 1) : declare_func_type(sig_index)
    /\ UNCHANGED <<externsVars, useVars, memVars, jitVars, steps, started, lookup>>
\* the start function is the first import or the first defined function
DeclareStartFunc ==
    /\ \E index \in {0, Len(imported_functions)} : declare_start_func(index)
    /\ UNCHANGED <<externsVars, useVars, memVars, jitVars, steps, started, lookup>>
\* the loop over the functions stops at the first body the translator
\* rejects: the bodies after it are never read and are left plain here
DefineFunctionBody ==
    /\ \E body_bytes \in BodyChoices :
          /\ body_bytes = "unsupported" =>
                \A k \in 1..Len(defined_functions) : defined_functions[k].body_bytes = "plain"
          /\ define_function_body(body_bytes, Len(defined_functions))
    /\ UNCHANGED <<externsVars, useVars, memVars, jitVars, steps, started, lookup>>
\* the module has at most one memory and one data segment here; SpecLoad
\* explores the memories and the segments
LinkDeclareMemory ==
    /\ SectionAt("memory")
    /\ memories = <<>>
    /\ \E limit \in LinkMemoryLimits : declare_memory([limit |-> limit])
    /\ section' = "memory"
    /\ UNCHANGED <<externsVars, useVars, signatures, functions, globals, imported_functions,
                   defined_functions, start_func, host, callback, jitVars, runVars>>
LinkDeclareData ==
    /\ SectionAt("data")
    /\ TranslateDone
    /\ segments = <<>>
    /\ \E memory_index \in 0..(Len(memories) - 1), seg \in LinkSegments :
          declare_data_initialization(memory_index, NoBase, seg.offset, seg.data)
    /\ section' = "data"
    /\ UNCHANGED <<externsVars, useVars, signatures, functions, globals, imported_functions,
                   defined_functions, start_func, host, callback, jitVars, runVars>>
RegisterSymbols ==
    /\ register_symbols
    /\ UNCHANGED <<externsVars, useVars, memVars, envVars, started, lookup>>
DeclareFunctions ==
    /\ declare_functions
    /\ UNCHANGED <<externsVars, useVars, memVars, envVars, started, lookup>>
FinalizeDefinitions ==
    /\ finalize_definitions
    /\ UNCHANGED <<externsVars, useVars, memVars, envVars, started, lookup>>
BuildMemory ==
    /\ build_memory
    /\ UNCHANGED <<externsVars, useVars, memories, data_initializations, segments, loaded,
                   envVars, jitVars, outcome, started, lookup>>
ConstructContext ==
    /\ construct_context
    /\ UNCHANGED <<externsVars, useVars, memVars, envVars, jitVars, outcome, started, lookup>>
RunStart ==
    /\ run_start
    /\ UNCHANGED <<externsVars, useVars, memVars, envVars, jitVars, lookup>>
\* the first slot, the first slot past the imports, the last slot, and the
\* first two indices past the table
FunctionLookup ==
    /\ \E index \in {0, Len(imported_functions), Len(table) - 1, Len(table), Len(table) + 1} :
          index >= 0 /\ VMContext_function(index)
    /\ UNCHANGED <<externsVars, useVars, pc, memVars, envVars, jitVars, steps, outcome, started>>

NextLink ==
    \/ Parse \/ DeclareSignature \/ DeclareFuncImport \/ DeclareGlobalImport
    \/ DeclareFuncType \/ LinkDeclareMemory \/ DeclareStartFunc \/ DefineFunctionBody
    \/ LinkDeclareData
    \/ RegisterSymbols \/ DeclareFunctions \/ FinalizeDefinitions
    \/ BuildMemory \/ ConstructContext \/ RunStart \/ FunctionLookup

SpecLink == InitLink /\ [][NextLink]_vars

(***************************************************************************)
(* SpecBuild: translate_module with every callback of the builder.         *)
(* SpecLower: translate_module, then the callbacks the translator makes on *)
(* FunctionEnv while load_module compiles the defined functions.  In both  *)
(* the imports are ones the host resolves and the bodies are plain:        *)
(* SpecLink explores the imports and the bodies that end the load.         *)
(***************************************************************************)
ImportNames == {Name("env", "t")}
ResolvedFunctions == {Name("env", "f")}
ResolvedGlobals == {Name("sys", "lvl"), Name("sys", "dbg")}

ResolvedFuncImport ==
    /\ \E sig_index \in 0..(Len(signatures) - 1), n \in ResolvedFunctions :
          declare_func_import(sig_index, n.module, n.field)
    /\ UNCHANGED <<externsVars, useVars, memVars, jitVars, steps, started, lookup>>
ResolvedGlobalImport ==
    /\ \E n \in ResolvedGlobals : declare_global_import("externref", FALSE, n.module, n.field)
    /\ UNCHANGED <<externsVars, useVars, memVars, jitVars, steps, started, lookup>>
PlainFunctionBody ==
    /\ define_function_body("plain", Len(defined_functions))
    /\ UNCHANGED <<externsVars, useVars, memVars, jitVars, steps, started, lookup>>

DeclareTableImport ==
    /\ \E n \in ImportNames : declare_table_import(n.module, n.field)
    /\ UNCHANGED <<externsVars, useVars, memVars, jitVars, steps, started, lookup>>
DeclareMemoryImport ==
    /\ \E n \in ImportNames : declare_memory_import(n.module, n.field)
    /\ UNCHANGED <<externsVars, useVars, memVars, jitVars, steps, started, lookup>>
DeclareTable ==
    /\ declare_table
    /\ UNCHANGED <<externsVars, useVars, memVars, jitVars, steps, started, lookup>>
DeclareGlobal ==
    /\ declare_global
    /\ UNCHANGED <<externsVars, useVars, memVars, jitVars, steps, started, lookup>>
DeclareExport ==
    /\ \E kind \in ExportKinds : declare_export(kind)
    /\ UNCHANGED <<externsVars, useVars, memVars, jitVars, steps, started, lookup>>
DeclareTableElements ==
    /\ declare_table_elements
    /\ UNCHANGED <<externsVars, useVars, memVars, jitVars, steps, started, lookup>>
DeclarePassiveElement ==
    /\ declare_passive_element
    /\ UNCHANGED <<externsVars, useVars, memVars, jitVars, steps, started, lookup>>
DeclarePassiveData ==
    /\ declare_passive_data
    /\ UNCHANGED <<externsVars, useVars, memVars, jitVars, steps, started, lookup>>

lowerRest == <<externsVars, mutex, threads, memories, data_initializations, segments, memory,
               loaded, envVars, jitVars, steps, started, lookup>>
LowerCall ==
    /\ \E index \in 0..(Len(functions) - 1), vmctx \in BOOLEAN, call_args \in ArgLists :
          Lowering("translate_call", index, vmctx, call_args,
                   translate_call(vmctx, make_direct_func(index), call_args))
    /\ UNCHANGED lowerRest
LowerRefFunc ==
    /\ \E index \in 0..(Len(functions) - 1) :
          Lowering("translate_ref_func", index, TRUE, <<>>, LoweredOk(translate_ref_func(index)))
    /\ UNCHANGED lowerRest
LowerMakeGlobal ==
    /\ \E index \in 0..Len(globals) :
          Lowering("make_global", index, TRUE, <<>>, make_global(index))
    /\ UNCHANGED lowerRest
LowerGlobalGet ==
    /\ \E index \in 0..Len(globals) :
          Lowering("translate_custom_global_get", index, TRUE, <<>>,
                   translate_custom_global_get(index))
    /\ UNCHANGED lowerRest
LowerGlobalSet ==
    /\ \E index \in 0..Len(globals) :
          Lowering("translate_custom_global_set", index, TRUE, <<>>,
                   translate_custom_global_set(index))
    /\ UNCHANGED lowerRest
LowerUnsupported ==
    /\ \E op \in UnsupportedOps : Lowering(op, 0, TRUE, <<>>, Unsupported(op))
    /\ UNCHANGED lowerRest

NextBuild ==
    \/ Parse \/ DeclareSignature \/ ResolvedFuncImport \/ ResolvedGlobalImport
    \/ DeclareTableImport \/ DeclareMemoryImport
    \/ DeclareFuncType \/ DeclareTable \/ LinkDeclareMemory \/ DeclareGlobal \/ DeclareExport
    \/ DeclareStartFunc \/ DeclareTableElements \/ DeclarePassiveElement
    \/ PlainFunctionBody \/ LinkDeclareData \/ DeclarePassiveData

SpecBuild == InitLink /\ [][NextBuild]_vars

NextLower ==
    \/ Parse \/ DeclareSignature \/ ResolvedFuncImport \/ ResolvedGlobalImport
    \/ DeclareFuncType \/ PlainFunctionBody \/ RegisterSymbols
    \/ LowerCall \/ LowerRefFunc \/ LowerMakeGlobal \/ LowerGlobalGet \/ LowerGlobalSet
    \/ LowerUnsupported

SpecLower == InitLink /\ [][NextLower]_vars

(***************************************************************************)
(* SpecUse: load_module on a module with a memory, a data segment and      *)
(* functions, then the calls a host makes on the context it returned:      *)
(* Memory::load, VMContext::function and the operations of the arena.      *)
(***************************************************************************)
\* largest generation a slot is driven to under SpecUse
UseGen == 1

\* the module has one function of type () -> ()
UseSignature ==
    /\ signatures = <<>>
    /\ declare_signature("()->()")
    /\ UNCHANGED <<externsVars, useVars, memVars, jitVars, steps, started, lookup>>
UseFuncType ==
    /\ functions = <<>>
    /\ declare_func_type(0)
    /\ UNCHANGED <<externsVars, useVars, memVars, jitVars, steps, started, lookup>>
UseCreate ==
    /\ pc = "ready"
    /\ \E p \in WrapPayloads : create_extern(p.ty, p.v, WrapSlots, UseGen, WrapHeld)
    /\ UNCHANGED <<loadVars, linkVars>>
UseGet ==
    /\ pc = "ready"
    /\ WrapGet
UseGetMut ==
    /\ pc = "ready"
    /\ WrapGetMut
UseTake ==
    /\ pc = "ready"
    /\ WrapTake

NextUse ==
    \/ Parse \/ UseSignature \/ UseFuncType
    \/ LinkDeclareMemory \/ PlainFunctionBody \/ LinkDeclareData
    \/ RegisterSymbols \/ DeclareFunctions \/ FinalizeDefinitions
    \/ BuildMemory \/ ConstructContext \/ RunStart
    \/ MemoryLoad \/ FunctionLookup \/ UseCreate \/ UseGet \/ UseGetMut \/ UseTake

SpecUse == InitLink /\ [][NextUse]_vars

(***************************************************************************)
(* SpecFire: load_module, then FabricListener::fire_game_event on the      *)
(* threads of the event manager, statement by statement.                   *)
(***************************************************************************)
fireRest == <<loadVars, envVars, jitVars, runVars, lowered>>
At(t, at, handle) == [threads EXCEPT ![t].at = at, ![t].handle = handle]

\* let mut lock = self.module.lock().unwrap();
FireLock ==
    /\ pc = "ready"
    /\ \E t \in Threads :
          /\ threads[t].at = "idle"
          /\ threads[t].fired < MaxEvents
          /\ lock(t)
          /\ threads' = At(t, "locked", 0)
    /\ UNCHANGED <<externsVars, fireRest>>
\* let handle = lock.externs.create_extern(event);
FireCreate ==
    /\ \E t \in Threads, event \in Events :
          /\ threads[t].at = "locked"
          /\ create_extern(event.ty, event.v, Cardinality(Threads),
                           MaxEvents * Cardinality(Threads), MaxEvents * Cardinality(Threads))
          /\ threads' = At(t, "created", last'.handle)
    /\ UNCHANGED <<mutex, fireRest>>
\* (self.listener)(&mut *lock, handle): the guest reads the event through
\* the host functions get_int and get_bool
FireListener ==
    /\ \E t \in Threads :
          /\ threads[t].at = "created"
          /\ get_extern_mut(threads[t].handle, EventType)
          /\ threads' = At(t, "called", threads[t].handle)
    /\ UNCHANGED <<mutex, fireRest>>
\* lock.externs.take_extern::<Box<dyn GameEvent>>(handle);
FireTake ==
    /\ \E t \in Threads :
          /\ threads[t].at = "called"
          /\ take_extern(threads[t].handle, EventType)
          /\ threads' = At(t, "taken", threads[t].handle)
    /\ UNCHANGED <<mutex, fireRest>>
\* the end of fire_game_event
FireReturn ==
    /\ \E t \in Threads :
          /\ threads[t].at = "taken"
          /\ drop_guard(t)
          /\ threads' = [threads EXCEPT ![t] = [at |-> "idle", handle |-> 0,
                                                fired |-> threads[t].fired + 1]]
    /\ UNCHANGED <<externsVars, fireRest>>

NextFire ==
    \/ Parse \/ UseSignature \/ UseFuncType \/ PlainFunctionBody
    \/ RegisterSymbols \/ DeclareFunctions \/ FinalizeDefinitions
    \/ BuildMemory \/ ConstructContext \/ RunStart
    \/ FireLock \/ FireCreate \/ FireListener \/ FireTake \/ FireReturn

SpecFire == InitLink /\ [][NextFire]_vars

(***************************************************************************)
(* Properties of the externs arena.                                        *)
(***************************************************************************)
IsAccess(op) == op \in {"get", "get_mut", "take"}

\* the lowest index of an empty slot, computed from the slots alone
LowestEmpty(arena) ==
    CHOOSE i \in 1..Len(arena) :
        /\ arena[i].value = None
        /\ \A j \in 1..(i - 1) : arena[j].value # None

HasEmpty(arena) == \E i \in 1..Len(arena) : arena[i].value = None

\* C1: once take(h) has been performed, every later get, get_mut or take that
\* uses h faults (the claim names the generation check as the cause; stated
\* here for any cause), whether or not the slot has been reused in between.
C1_StaleHandleFaults ==
    (IsAccess(last.op) /\ last.stale) => last.result = "fault"

\* C2: no two create calls in the arena's lifetime return equal handles, so a
\* handle of an earlier create never resolves to the value of a later one.
C2_HandlesNeverRepeat ==
    (last.op = "create" /\ last.result = "ok") => ~last.dup

\* C3: create(value) places the value in the lowest-indexed empty slot,
\* incrementing that slot's generation by one, or appends a new slot with
\* generation 0 when no slot is empty; the handle encodes (index, generation
\* after the call).
C3_CreatePlacement ==
    [][last'.op = "create" =>
        /\ last'.result = "ok"
        /\ IF HasEmpty(externs)
           THEN LET i == LowestEmpty(externs) IN
                /\ externs' = [externs EXCEPT ![i] =
                                 [gen |-> externs[i].gen + 1,
                                  value |-> Some(last'.ty, last'.v)]]
                /\ index_gen(last'.handle) = [index |-> i - 1, gen |-> externs'[i].gen]
           ELSE /\ externs' = Append(externs, [gen |-> 0, value |-> Some(last'.ty, last'.v)])
                /\ index_gen(last'.handle) = [index |-> Len(externs), gen |-> 0]
      ]_vars

\* C4: after take(h) emptied a slot, the next create that reuses the slot
\* returns a handle that differs from h and whose generation differs from
\* h's (h is the handle of the emptied slot at its unchanged generation).
C4_ReuseChangesHandle ==
    [][(last'.op = "create" /\ last'.result = "ok" /\ HasEmpty(externs)) =>
        LET i == index_gen(last'.handle).index + 1
            h == from_index_gen(i - 1, externs[i].gen) IN
        /\ externs[i].value = None
        /\ Stale(h)
        /\ last'.handle # h
        /\ index_gen(last'.handle).gen # index_gen(h).gen
      ]_vars

C4_Witness ==
    /\ last.op = "create" /\ last.result = "ok"
    /\ index_gen(last.handle) = [index |-> 1, gen |-> 1]
    /\ Stale(from_index_gen(1, 0))

\* C5: a handle returned by create(v) on which no take has been called
\* resolves through get and get_mut to v, with the type it was created with,
\* whatever was done with other handles in between.
C5_LiveHandleResolves ==
    \A r \in issued :
        (last.op \in {"get", "get_mut"} /\ last.arg = r.h /\ ~r.taken /\ last.ty = r.ty)
            => (last.result = "ok" /\ last.ret = Some(r.ty, r.v))

C5_Witness ==
    /\ last.op = "get_mut" /\ last.result = "ok"
    /\ last.arg = from_index_gen(1, 0)
    /\ last.ret = Some("B", 2)
    /\ Len(externs) = 2
    /\ externs[1] = [gen |-> 2, value |-> Some("A", 1)]

\* C6: take(h) on a live handle returns the value stored by the create that
\* returned h and leaves the slot empty with its generation unchanged; a later
\* create picks that slot when it is the first empty one.
C6_TakeReturnsAndEmpties ==
    [][/\ \A r \in issued :
            (last'.op = "take" /\ last'.arg = r.h /\ ~r.taken /\ last'.ty = r.ty) =>
                LET i == index_gen(r.h).index + 1 IN
                /\ last'.result = "ok"
                /\ last'.ret = Some(r.ty, r.v)
                /\ externs' = [externs EXCEPT ![i] = [gen |-> externs[i].gen, value |-> None]]
       /\ \A i \in 1..Len(externs) :
            (/\ last'.op = "create" /\ last'.result = "ok"
             /\ Stale(from_index_gen(i - 1, externs[i].gen))
             /\ externs[i].value = None
             /\ \A j \in 1..(i - 1) : externs[j].value # None) =>
                (externs'[i].value = Some(last'.ty, last'.v)
                   /\ index_gen(last'.handle).index = i - 1)
      ]_vars

C6_Witness ==
    /\ last.op = "take" /\ last.result = "ok"
    /\ last.arg = from_index_gen(1, 1)
    /\ last.ret = Some("B", 2)
    /\ externs[2] = [gen |-> 1, value |-> None]
    /\ externs[1].value # None

\* the faults the claim C7 lists: index out of range, generation differs from
\* the slot's, requested type differs from the stored value's
IndexOutOfRange(arena, h) == index_gen(h).index >= Len(arena)
GenerationDiffers(arena, h) ==
    /\ ~IndexOutOfRange(arena, h)
    /\ arena[index_gen(h).index + 1].gen # index_gen(h).gen
TypeDiffers(arena, h, ty) ==
    /\ ~IndexOutOfRange(arena, h)
    /\ arena[index_gen(h).index + 1].value # None
    /\ arena[index_gen(h).index + 1].value.ty # ty
BadAccess(arena, h, ty) ==
    IndexOutOfRange(arena, h) \/ GenerationDiffers(arena, h) \/ TypeDiffers(arena, h, ty)

\* C7 as claimed: such a call faults and leaves every slot unchanged; in
\* particular a take with the wrong type does not remove the stored value.
C7_FaultLeavesArena ==
    [][(IsAccess(last'.op) /\ BadAccess(externs, last'.arg, last'.ty)) =>
        (last'.result = "fault" /\ externs' = externs)
      ]_vars

\* C7 amended: such a call faults; it leaves every slot unchanged, except a
\* take whose handle passes the index and generation checks and whose type
\* differs from the stored value's: that take removes the value (the slot is
\* left empty, its generation and all other slots unchanged).
C7_FaultAmended ==
    [][(IsAccess(last'.op) /\ BadAccess(externs, last'.arg, last'.ty)) =>
        /\ last'.result = "fault"
        /\ IF /\ last'.op = "take"
              /\ ~IndexOutOfRange(externs, last'.arg)
              /\ ~GenerationDiffers(externs, last'.arg)
           THEN externs' = [externs EXCEPT ![index_gen(last'.arg).index + 1].value = None]
           ELSE externs' = externs
      ]_vars

C7_Witness ==
    /\ last.op = "take" /\ last.result = "fault" /\ last.cause = "type"
    /\ last.arg = from_index_gen(0, 1)
    /\ Len(externs) = 2
    /\ externs[1] = [gen |-> 1, value |-> None]
    /\ externs[2].value # None

(***************************************************************************)
(* Properties of the memory built by load_module and of Memory::load.      *)
(***************************************************************************)
SegEnd(seg) == seg.offset + Len(seg.data)

\* the byte ranges of two segments share a position
Overlap(a, b) ==
    \E p \in 1..SegEnd(a) : p > a.offset /\ p > b.offset /\ p <= SegEnd(b)

PairwiseDisjoint(segs) ==
    \A i, j \in 1..Len(segs) : i # j => ~Overlap(segs[i], segs[j])

SingleMemory ==
    /\ Len(memories) = 1
    /\ \A i \in 1..Len(segments) : segments[i].memory_index = 0

Covers(seg, p) == p > seg.offset /\ p <= SegEnd(seg)

\* C8: the memory built by load has length max(offset + length) over the
\* data segments, holds every segment's bytes at its offset and zero
\* elsewhere; segments {0, [1,2,3]} and {10, [9,9]} give
\* [1,2,3,0,0,0,0,0,0,0,9,9].
C8_MemoryHoldsEverySegment ==
    (pc = "ready" /\ SingleMemory /\ PairwiseDisjoint(segments)) =>
        /\ \A i \in 1..Len(segments) : Len(memory) >= SegEnd(segments[i])
        /\ \/ Len(memory) = 0
           \/ \E i \in 1..Len(segments) : Len(memory) = SegEnd(segments[i])
        /\ \A i \in 1..Len(segments) : \A k \in 1..Len(segments[i].data) :
              memory[segments[i].offset + k] = segments[i].data[k]
        /\ \A p \in 1..Len(memory) :
              (\A i \in 1..Len(segments) : ~Covers(segments[i], p)) => memory[p] = 0
        /\ (segments = <<[memory_index |-> 0, offset |-> 0, data |-> <<1, 2, 3>>],
                         [memory_index |-> 0, offset |-> 10, data |-> <<9, 9>>]>>)
              => memory = <<1, 2, 3, 0, 0, 0, 0, 0, 0, 0, 9, 9>>

\* C9: when two declared initializers overlap, or one lies outside the
\* declared bounds of its memory, load does not produce an execution context.
OutOfBounds(seg) == SegEnd(seg) > memories[seg.memory_index + 1].limit

C9_BadInitializersFailLoad ==
    pc = "ready" =>
        /\ PairwiseDisjoint(segments)
        /\ \A i \in 1..Len(segments) : ~OutOfBounds(segments[i])

\* C10: loading a NUL-terminated string at offset O succeeds whenever O is
\* within the memory and a zero byte occurs at or after O, and returns the
\* bytes from O up to the first zero byte; it fails when no zero byte occurs
\* between O and the end of the memory.
ZeroAtOrAfter(mem, o) == \E p \in (o + 1)..Len(mem) : mem[p] = 0

FirstZeroFrom(mem, o) ==
    CHOOSE p \in (o + 1)..Len(mem) : mem[p] = 0 /\ \A q \in (o + 1)..(p - 1) : mem[q] # 0

C10_CStrLoad ==
    loaded.kind = "cstr" =>
        IF ZeroAtOrAfter(memory, loaded.offset)
        THEN /\ loaded.ok
             /\ loaded.value = SubSeq(memory, loaded.offset + 1,
                                      FirstZeroFrom(memory, loaded.offset) - 1)
        ELSE ~loaded.ok

\* C11: Memory::load, for the raw byte span and the NUL-terminated string,
\* returns a value or a failure value and never faults; the byte span load
\* returns the bytes from the offset to the end of the memory when the offset
\* is at most the memory length and fails when it is greater.
C11_LoadNeverFaults ==
    loaded.kind # "none" =>
        /\ ~loaded.fault
        /\ loaded.kind = "bytes" =>
              IF loaded.offset <= Len(memory)
              THEN loaded.ok /\ loaded.value = [i \in 1..(Len(memory) - loaded.offset) |->
                                                    memory[loaded.offset + i]]
              ELSE ~loaded.ok

C11_Witness ==
    /\ loaded.kind = "bytes" /\ loaded.ok /\ loaded.value = <<>>
    /\ loaded.offset = Len(memory)
    /\ Len(memory) = 12

(***************************************************************************)
(* Properties of the functions table of the context load_module returns.   *)
(***************************************************************************)
NumImported == Len(imported_functions)
NumFunctions == Len(functions)
\* the function indices of the module, 0-based
FuncIndices == 0..(NumFunctions - 1)
IsImportIndex(i) == i < NumImported

\* the FuncId whose definition was compiled from body k
CompiledFrom(id, k) ==
    \E n \in 1..Len(definitions) : definitions[n] = [id |-> id, body_offset |-> k]

\* C12: the functions table of the returned context has one entry per
\* function index; the positions below the number of imports are those of
\* the imports, in declaration order, and hold no code of a defined function;
\* every later position i holds the function compiled from the body the
\* module numbers i (body i - imports), with the signature declared for i.
C12_TableFollowsDeclarationOrder ==
    pc = "ready" =>
        /\ Len(table) = NumFunctions
        /\ \A i \in FuncIndices :
              IF IsImportIndex(i)
              THEN /\ table[i + 1].pointer.kind # "jit"
                   /\ \E n \in 1..Len(declared) :
                         /\ declared[n].name = imported_functions[i + 1].name
                         /\ declared[n].linkage = "Import"
              ELSE /\ table[i + 1].some
                   /\ table[i + 1].signature = signatures[functions[i + 1] + 1]
                   /\ table[i + 1].pointer = JitPointer(table[i + 1].id)
                   /\ CompiledFrom(table[i + 1].id, i - NumImported)
                   /\ declared[table[i + 1].id + 1].name = "func_" \o ToString(i)
                   /\ \A j \in FuncIndices : j # i => table[j + 1].pointer # table[i + 1].pointer

C12_Witness ==
    /\ pc = "ready"
    /\ NumImported = 1
    /\ NumFunctions = 3
    /\ table[2].some /\ table[3].some
    /\ CompiledFrom(table[3].id, 1)

\* C13: function(FuncRef(i)) returns a Function for every function index i
\* of the module, and for an import it is built from the pointer of the host.
C13_EveryFunctionResolved ==
    (pc = "ready" /\ lookup.called /\ lookup.index < NumFunctions) =>
        /\ lookup.ret.some
        /\ IsImportIndex(lookup.index) =>
              lookup.ret.pointer = imported_functions[lookup.index + 1].ptr

\* C14: function(FuncRef(i)) returns nothing when i is at or beyond the table
\* length or slot i holds no compiled function, returns the entry of slot i
\* otherwise, never faults, and the context is the one load_module built.
C14_FunctionIsLookup ==
    lookup.called =>
        /\ ~lookup.fault
        /\ IF lookup.index >= Len(table) THEN ~lookup.ret.some
           ELSE IF ~table[lookup.index + 1].some THEN ~lookup.ret.some
           ELSE lookup.ret.some /\ lookup.ret = table[lookup.index + 1]
        /\ table = TableOf(list)
        /\ memory = InitLoop(<<>>, 0, data_initializations)
        /\ externs = <<>>

C14_Witness ==
    /\ lookup.called
    /\ lookup.index = Len(table) + 1
    /\ Len(table) = 2
    /\ ~table[1].some /\ table[2].some

(***************************************************************************)
(* Properties of import resolution.                                        *)
(***************************************************************************)
HostCalls(kind) == SelectSeq(host, LAMBDA c : c.kind = kind)
SomeUnresolved == \E k \in 1..Len(host) : ~host[k].response.some
UnresolvedImportError ==
    /\ outcome.kind \notin {"none", "context"}
    /\ outcome.error.what \in {"unknown function", "unknown global"}
Linked == pc \in {"compiled", "finalized", "memory", "context", "ready"}

\* C15: load_module fails with an unresolved-import error exactly when the
\* Environment returned nothing for an import; and once the functions are
\* declared with every import resolved, the call target of each imported
\* function is the pointer the Environment returned for that import, and
\* each imported global is the constant the Environment returned for it.
C15_ImportsBoundToHost ==
    /\ UnresolvedImportError <=> SomeUnresolved
    /\ Linked =>
          /\ \A i \in 0..(NumImported - 1) :
                CallTarget(declared, symbols, i) = HostCalls("function")[i + 1].response.pointer
          /\ \A j \in 1..Len(globals) :
                globals[j] = HostCalls("global")[j].response

(***************************************************************************)
(* Properties of the way load_module ends.                                 *)
(***************************************************************************)
StructuralErrors ==
    {"malformed source", "unknown function", "unknown global", "incompatible signature",
     "invalid type for constant", "invalid mutability for constant",
     "incompatible declaration", "unsupported body"}
Failed == outcome.error # NoError

\* C16 as stated: a structural error of the load comes back from load_module
\* as a failure value and the caller is not aborted.
C16_ErrorsAreReturned ==
    Failed => outcome.kind = "error" /\ pc # "panicked"

\* C16, amended: load_module has no failure value.  Every structural error
\* it detects ends it by a panic that carries the error, no context is
\* returned, and nothing of the context was built for the host to use.
C16_ErrorsPanic ==
    /\ outcome.kind \in {"none", "context", "panic"}
    /\ Failed <=> outcome.kind = "panic"
    /\ Failed <=> pc = "panicked"
    /\ callback.ret \in {"err", "panic"} => outcome = PanicWith(callback.error)
    /\ Failed =>
          /\ outcome.error.what \in StructuralErrors
          /\ table = <<>> /\ memory = <<>> /\ started = <<>> /\ ~lookup.called

C16_Witness ==
    /\ pc = "panicked"
    /\ outcome = PanicWith(WasmErrorUser("unknown function", "env", "g"))
    /\ Len(host) = 2
    /\ Len(imported_functions) = 1

(***************************************************************************)
(* Properties of the steps of load_module.                                 *)
(***************************************************************************)
\* C17: a module that declares a start function, imported or defined, has it
\* called exactly once by load_module, on the initialised memory and with
\* the context that load_module returns; a module without a start function
\* causes no guest call; no guest call is made before the return step.
C17_StartRunsOnce ==
    /\ pc # "ready" => started = <<>>
    /\ pc = "ready" =>
          IF start_func.some
          THEN /\ Len(started) = 1
               /\ started[1].index = start_func.index
               /\ started[1].memory = InitLoop(<<>>, 0, data_initializations)
               /\ started[1].memory = memory
               /\ started[1].functions = table
          ELSE started = <<>>

StepOrder == <<"parse", "declare", "symbols", "functions", "finalize", "memory", "context", "start">>
IsPrefix(a, b) == Len(a) <= Len(b) /\ a = SubSeq(b, 1, Len(a))
Entered(step) == \E k \in 1..Len(steps) : steps[k] = step
ImportErrors == {"unknown function", "unknown global", "incompatible signature",
                 "invalid type for constant", "invalid mutability for constant"}

\* C18: the steps load_module has entered are an initial part of parse,
\* declare, symbols, functions, finalize, memory, context, start, all of
\* them when it returns; nothing a step produces exists before the step is
\* entered; and once a step failed no further step is entered: after an
\* import error nothing is registered, declared or compiled, and after any
\* failure no table, no memory and no start call exist.
C18_StepsInOrder ==
    /\ IsPrefix(steps, StepOrder)
    /\ pc = "ready" <=> steps = StepOrder
    /\ symbols # <<>> => Entered("symbols")
    /\ (declared # <<>> \/ definitions # <<>> \/ list # <<>>) => Entered("functions")
    /\ table # <<>> => Entered("finalize")
    /\ memory # <<>> => Entered("memory")
    /\ started # <<>> => Entered("start")
    /\ outcome.error.what = "malformed source" => steps = <<"parse">>
    /\ outcome.error.what \in ImportErrors =>
          /\ steps = <<"parse", "declare">>
          /\ symbols = <<>> /\ declared = <<>> /\ definitions = <<>>
    /\ outcome.error.what \in {"incompatible declaration", "unsupported body"} =>
          steps = <<"parse", "declare", "symbols", "functions">>
    /\ Failed => table = <<>> /\ memory = <<>> /\ started = <<>>

C18_Witness ==
    /\ pc = "panicked"
    /\ outcome.error.what = "unknown function"
    /\ Len(imported_functions) = 1
    /\ steps = <<"parse", "declare">>
    /\ definitions = <<>>

(***************************************************************************)
(* Properties of the import callbacks.                                     *)
(***************************************************************************)
LastAsked == host[Len(host)]

\* C19: declare_global_import returns Ok exactly when the host returned a
\* constant for (module, field) and the global is declared externref and
\* immutable; it then appended the host's value at the next global index;
\* otherwise it returned an error and the globals list is as it found it.
C19_GlobalImportAcceptance ==
    callback.name = "declare_global_import" =>
        /\ Len(host) = callback.before.asked + 1
        /\ LastAsked = [kind |-> "global", module |-> callback.module, field |-> callback.field,
                        response |-> import_global(callback.module, callback.field)]
        /\ callback.ret = "ok" <=>
              /\ LastAsked.response.some
              /\ callback.wasm_ty = "externref"
              /\ ~callback.mutability
        /\ IF callback.ret = "ok"
           THEN /\ globals = Append(callback.before.globals, LastAsked.response)
                /\ callback.error = NoError
           ELSE /\ callback.ret = "err"
                /\ callback.error.what \in {"unknown global", "invalid type for constant",
                                            "invalid mutability for constant"}
                /\ globals = callback.before.globals
                /\ outcome.error = callback.error

C19_Witness ==
    /\ callback.name = "declare_global_import"
    /\ callback.ret = "ok"
    /\ Len(globals) = 2
    /\ globals[1] # globals[2]

C28_SlotsAreHighWaterMark ==
    /\ Len(externs) = peak
    /\ Occupied(externs) <= Len(externs)

C28_Witness ==
    /\ last.op = "create" /\ last.result = "ok"
    /\ Len(externs) = 2
    /\ Occupied(externs) = 1
    /\ index_gen(last.handle).gen > 0

\* the occupancy and the generation of a slot
Shape(slot) == [gen |-> slot.gen, occupied |-> slot.value # None]
SameBut(a, b, keep) ==
    \A k \in 1..Len(a) : k \in keep \/ (k <= Len(b) /\ a[k] = b[k])

\* C29: get and get_mut change no slot; a create changes the one slot its
\* handle names, which is then occupied by the value given, and a take
\* changes at most the slot its handle names, whose generation it keeps;
\* the value, occupancy and generation of every other slot stay the same.
C29_Step ==
    /\ Len(externs') >= Len(externs)
    /\ last'.op \in {"get", "get_mut"} => externs' = externs
    /\ (last'.op = "create" /\ last'.result = "ok") =>
          LET i == index_gen(last'.handle).index + 1 IN
          /\ SameBut(externs, externs', {i})
          /\ Len(externs') = (IF i > Len(externs) THEN i ELSE Len(externs))
          /\ externs'[i].value = Some(last'.ty, last'.v)
          /\ i <= Len(externs) => Shape(externs'[i]) # Shape(externs[i])
    /\ (last'.op = "create" /\ last'.result # "ok") => externs' = externs
    /\ last'.op = "take" =>
          LET i == index_gen(last'.arg).index + 1 IN
          /\ Len(externs') = Len(externs)
          /\ SameBut(externs, externs', {i})
          /\ i <= Len(externs) =>
                /\ externs'[i].gen = externs[i].gen
                /\ last'.result = "ok" =>
                      Shape(externs'[i]) = [gen |-> externs[i].gen, occupied |-> FALSE]
C29_OperationsAreLocal == [][C29_Step]_vars

C29_Witness ==
    /\ last.op = "take" /\ last.result = "ok"
    /\ Len(externs) = 2
    /\ index_gen(last.arg).index = 0
    /\ externs[1].value = None
    /\ externs[2].value # None

(***************************************************************************)
(* Properties that relate function indices, declarations and the table.    *)
(***************************************************************************)
\* C22: a reference to function index i is lowered to the constant i, and
\* function(FuncRef(i)) on the returned context yields the function of
\* index i: the host function of an import, the compiled body of a defined
\* function.
C22_RefFuncRoundTrip ==
    pc = "ready" =>
        \A i \in FuncIndices :
            LET value == translate_ref_func(i)
                got == FunctionAt(table, FuncRefOf(value))
            IN  /\ value.imm = i
                /\ ~got.fault
                /\ got.entry.some
                /\ IF IsImportIndex(i)
                   THEN got.entry.pointer = imported_functions[i + 1].ptr
                   ELSE CompiledFrom(got.entry.id, i - NumImported)

\* the declaration the code generator holds under a name
HasDeclaration(name, linkage) ==
    \E n \in 1..Len(declared) : declared[n].name = name /\ declared[n].linkage = linkage
IsCompiled(name) ==
    \E n \in 1..Len(declared), k \in 1..Len(definitions) :
        declared[n].name = name /\ definitions[k].id = n - 1

\* C30: once the functions are declared, every function index is either an
\* import (below the number of imports, declared with import linkage under
\* "module::field", never compiled) or defined (declared with export
\* linkage under a placeholder name, compiled from body index - imports);
\* imports with different (module, field) pairs have different symbol
\* names; and the call target of each import is the pointer the host
\* returned for it.
C30_ImportsLinkedApart ==
    Linked =>
        LET asked == HostCalls("function") IN
        /\ \A i \in FuncIndices :
              IF IsImportIndex(i)
              THEN /\ imported_functions[i + 1].name = asked[i + 1].module \o "::" \o asked[i + 1].field
                   /\ HasDeclaration(imported_functions[i + 1].name, "Import")
                   /\ ~IsCompiled(imported_functions[i + 1].name)
              ELSE /\ HasDeclaration("func_" \o ToString(i), "Export")
                   /\ \E k \in 1..Len(definitions) :
                         /\ definitions[k].body_offset = i - NumImported
                         /\ declared[definitions[k].id + 1].name = "func_" \o ToString(i)
        /\ \A i, j \in 0..(NumImported - 1) :
              Name(asked[i + 1].module, asked[i + 1].field) #
                  Name(asked[j + 1].module, asked[j + 1].field)
              => imported_functions[i + 1].name # imported_functions[j + 1].name
        /\ \A i \in 0..(NumImported - 1) :
              CallTarget(declared, symbols, i) = asked[i + 1].response.pointer

(***************************************************************************)
(* Properties of the lowering of function bodies and of the builder.       *)
(***************************************************************************)
\* C21: lowering a direct call with arguments a1..an emits a call whose
\* arguments are the context parameter of the calling function followed by
\* a1..an, whatever the callee; when the calling function has no context
\* parameter the lowering fails and emits nothing; no call is ever emitted
\* without the context as its first argument.
C21_CallsCarryContext ==
    /\ lowered.op = "translate_call" =>
          IF lowered.vmctx
          THEN /\ lowered.ret = "ok"
               /\ lowered.inst.inst = "call"
               /\ lowered.inst.callee.name = lowered.index
               /\ lowered.inst.args = <<VMContextParam>> \o lowered.args
          ELSE /\ lowered.ret = "err"
               /\ lowered.inst = NoInst
               /\ pc = "panicked"
               /\ outcome.error.what = "missing vmtcx parameter"
    /\ lowered.inst.inst = "call" =>
          /\ Len(lowered.inst.args) >= 1
          /\ lowered.inst.args[1] = VMContextParam
C21_Witness ==
    /\ lowered.op = "translate_call"
    /\ lowered.ret = "ok"
    /\ IsImportIndex(lowered.index)
    /\ lowered.inst.args = <<VMContextParam, "v0", "v1">>

\* C23: a read of global index g is lowered to an inline constant built
\* from the value the host returned for the g-th global import; an index
\* past the global imports and every global write are fatal and emit
\* nothing.
C23_GlobalReadIsRecordedConstant ==
    LET asked == HostCalls("global") IN
    /\ lowered.op = "translate_custom_global_get" =>
          IF lowered.index < Len(asked)
          THEN /\ lowered.ret = "ok"
               /\ lowered.inst = [inst |-> "iconst", ty |-> "I64",
                                  imm |-> from_const(asked[lowered.index + 1].response.const)]
          ELSE /\ lowered.ret = "panic"
               /\ lowered.inst = NoInst
    /\ lowered.op = "translate_custom_global_set" =>
          /\ lowered.ret = "panic"
          /\ lowered.inst = NoInst
          /\ pc = "panicked"
C23_Witness ==
    /\ lowered.op = "translate_custom_global_get"
    /\ lowered.ret = "ok"
    /\ lowered.index = 1
    /\ globals[1] # globals[2]

\* C24: the lowering of an indirect call, of a table operation, of memory
\* grow/size/copy/fill/init, of an atomic wait/notify and of a data/element
\* drop ends the translation by a panic and emits nothing.
C24_UnsupportedIsFatal ==
    lowered.op \in UnsupportedOps =>
        /\ lowered.ret = "panic"
        /\ lowered.inst = NoInst
        /\ pc = "panicked"
        /\ outcome.kind = "panic"
C24_Witness ==
    /\ lowered.op = "translate_memory_grow"
    /\ pc = "panicked"
    /\ outcome = PanicWith(WasmErrorUser("translate_memory_grow", "", ""))

BuilderFatal == {"declare_table_import", "declare_memory_import"}
BuilderNoOps ==
    {"declare_table", "declare_global", "declare_table_elements", "declare_passive_element",
     "declare_passive_data"} \cup {"declare_" \o kind \o "_export" : kind \in ExportKinds}

\* C25: declaring a table import or a memory import is fatal; declaring a
\* table, a global of the module, an export, table elements, a passive
\* element or passive data returns Ok and changes none of signatures,
\* functions, globals, memories, data initializations, start index,
\* imported functions and defined functions.
C25_Step ==
    callback' # callback =>
        /\ callback'.name \in BuilderFatal =>
              /\ callback'.ret = "panic"
              /\ pc' = "panicked"
              /\ outcome'.kind = "panic"
        /\ callback'.name \in BuilderNoOps =>
              /\ callback'.ret = "ok"
              /\ pc' = pc
              /\ outcome' = outcome
              /\ UNCHANGED <<signatures, functions, globals, memories, data_initializations,
                             start_func, imported_functions, defined_functions>>
C25_BuilderNoOps == [][C25_Step]_vars
C25_Witness ==
    /\ callback.name = "declare_passive_data"
    /\ callback.ret = "ok"
    /\ signatures # <<>>
    /\ globals # <<>>
    /\ imported_functions # <<>>
    /\ defined_functions # <<>>
    /\ memories # <<>>
    /\ segments # <<>>
    /\ start_func.some

(***************************************************************************)
(* Properties of the context load_module returned.                         *)
(***************************************************************************)
\* C26: once load_module has returned, no Memory::load, no function lookup
\* and no operation of the externs arena changes the length or the bytes
\* of the linear memory.
C26_MemoryIsFixed == [][pc = "ready" => memory' = memory]_vars
C26_Witness ==
    /\ pc = "ready"
    /\ memory = <<0, 0, 9, 9>>
    /\ loaded.kind = "bytes" /\ loaded.ok /\ loaded.offset = 2
    /\ lookup.called /\ lookup.ret.some
    /\ last.op = "take" /\ last.result = "ok"

(***************************************************************************)
(* Properties of the event deliveries of the addon.                        *)
(***************************************************************************)
InDelivery(t) == threads[t].at \in {"locked", "created", "called", "taken"}
HoldsHandle(t) == threads[t].at \in {"created", "called"}

\* C27: a delivery is between its lock and its return only while its thread
\* holds the mutex of the module, so two deliveries are never under way at
\* once; the handle a delivery created names its own event from the create
\* to the take, the guest call and the take of that handle succeed, and
\* no other delivery's value is in the arena meanwhile.
C27_DeliveriesAreSerialized ==
    /\ \A t \in Threads : InDelivery(t) => mutex = t
    /\ \A t, u \in Threads : InDelivery(t) /\ InDelivery(u) => t = u
    /\ \A t \in Threads :
          HoldsHandle(t) =>
              /\ Lookup(externs, threads[t].handle, EventType) = "none"
              /\ Occupied(externs) = 1
    /\ \A t \in Threads :
          threads[t].at \in {"called", "taken"} =>
              /\ last.arg = threads[t].handle
              /\ last.result = "ok"
    /\ (\A t \in Threads : ~HoldsHandle(t)) => Occupied(externs) = 0
C27_Witness ==
    /\ threads["t1"].at = "taken"
    /\ threads["t1"].fired = 1
    /\ threads["t2"].fired = 1
    /\ threads["t2"].at = "idle"
    /\ last.op = "take" /\ last.result = "ok"
    /\ index_gen(last.arg).gen = 2

====
